---- MODULE Spec2Model ----
(***************************************************************************)
(* Ec2RunTask (packages/@aws-cdk/aws-ecs/lib/ec2/ec2-run-task.ts): the     *)
(* constructor, the placement operations that grow the two accumulators,   *)
(* the two deferred parameters that read them, and validate().             *)
(***************************************************************************)
EXTENDS Naturals, Sequences, FiniteSets, TLC

VARIABLES
    ctor,            \* position of the constructor: "new", "thrown", "done"
    error,           \* message of the Error the constructor threw, or "none"
    props,           \* the Ec2RunTaskProps the constructor was called with
    superCalled,     \* TRUE once super(scope, id, props) has run
    fields,          \* the instance fields assigned so far
    parameters,      \* the keys assigned on this._parameters
    networking,      \* which networking branch the constructor configured
    constraints,     \* this.constraints
    strategies,      \* this.strategies
    token,           \* the two deferred values: cache state of each
    resolverCalls,   \* how often each deferred value's resolver closure ran
    returned,        \* what the last resolve() of each deferred value returned
    hasEc2Capacity,  \* this.cluster.hasEc2Capacity
    superRet,        \* what super.validate() returned in the last validate()
    ret,             \* what the last validate() returned
    call             \* the last placement method invoked, with its arguments

vars == << ctor, error, props, superCalled, fields, parameters, networking,
           constraints, strategies, token, resolverCalls, returned,
           hasEc2Capacity, superRet, ret, call >>

----------------------------------------------------------------------------
(* Bounds of the model *)

\* longest accumulator the placement operations are allowed to build
MaxEntries == 2
\* most arguments passed to one variadic placement call
MaxArgs == 2

----------------------------------------------------------------------------
(* Values *)

Expressions == {"a", "b"}

InstanceId == "instanceId"

Fields == {InstanceId, "attribute:ecs.availability-zone"}

BinPackResources == {"cpu", "memory"}

NetworkModes == {"AwsVpc", "Bridge"}

TokenNames == {"PlacementConstraints", "PlacementStrategy"}

NotCompatibleError == "Supplied TaskDefinition is not configured for compatibility with EC2"

NoContainerError == "A TaskDefinition must have at least one essential container"

NetworkingPropsError == "vpcPlacement and securityGroup can only be used in AwsVpc networking mode"

CapacityError == "Cluster for this service needs Ec2 capacity. Call addXxxCapacity() on the cluster."

\* the argument lists of a variadic call: sequences over S of length 0..n
ArgLists(S, n) == UNION { [1..k -> S] : k \in 0..n }

Ec2RunTaskProps ==
    [ isEc2Compatible          : BOOLEAN,
      defaultContainer         : BOOLEAN,
      networkMode              : NetworkModes,
      vpcPlacement             : BOOLEAN,
      securityGroup            : BOOLEAN,
      placeOnDistinctInstances : BOOLEAN ]

\* the props slot before the constructor has been called
NoProps ==
    [ isEc2Compatible          |-> FALSE,
      defaultContainer         |-> FALSE,
      networkMode              |-> "Bridge",
      vpcPlacement             |-> FALSE,
      securityGroup            |-> FALSE,
      placeOnDistinctInstances |-> FALSE ]

\* a placement call: the method and its argument list
Call(op, args) == [op |-> op, args |-> args]

NoCall == Call("none", << >>)

\* the error lists super.validate() may hand back
BaseErrors == { <<>>, <<"base">> }

\* a resolved parameter: the property is omitted, or it carries a list
Absent == [present |-> FALSE, value |-> <<>>]

Present(list) == [present |-> TRUE, value |-> list]

----------------------------------------------------------------------------
(* Pure parts of the code *)

\* PreSuperError with the essential-container check left out
PreSuperErrorNoContainerCheck(p) ==
    IF ~p.isEc2Compatible THEN NotCompatibleError ELSE "none"

\* constructor, the two checks made before super()
PreSuperError(p) ==
    IF ~p.isEc2Compatible THEN NotCompatibleError
    ELSE IF ~p.defaultContainer THEN NoContainerError
    ELSE "none"

\* validateNoNetworkingProps: the message it throws, or "none"
validateNoNetworkingProps(p) ==
    IF p.vpcPlacement \/ p.securityGroup THEN NetworkingPropsError ELSE "none"

\* constructor, the networking branch: the message it throws, or "none"
NetworkingError(p) ==
    IF p.networkMode = "AwsVpc" THEN "none" ELSE validateNoNetworkingProps(p)

\* constructor: the constraints list it leaves behind
InitialConstraints(p) ==
    IF p.placeOnDistinctInstances THEN << [Type |-> "distinctInstance"] >> ELSE << >>

\* ConstraintsResolver with the length test off by one
ConstraintsResolverOffByOne(c, s) ==
    IF Len(c) > 1 THEN "this.constraints" ELSE "undefined"

\* ConstraintsResolver without the length test
ConstraintsResolverNoTest(c, s) == "this.constraints"

\* the closure of the PlacementConstraints token: it hands out the list
\* object itself, or undefined
ConstraintsResolver(c, s) ==
    IF Len(c) > 0 THEN "this.constraints" ELSE "undefined"

\* the closure of the PlacementStrategy token
StrategiesResolver(c, s) ==
    IF Len(c) > 0 THEN "this.strategies" ELSE "undefined"

Resolver(name, c, s) ==
    IF name = "PlacementConstraints" THEN ConstraintsResolver(c, s)
    ELSE StrategiesResolver(c, s)

\* what a resolved value reads as while the lists are c and s
Deref(v, c, s) ==
    CASE v = "this.constraints" -> Present(c)
      [] v = "this.strategies"  -> Present(s)
      [] OTHER                  -> Absent

\* placeOnMemberOf: the entries pushed for its arguments
MemberOfEntries(expressions) ==
    [ i \in 1..Len(expressions) |-> [Type |-> "memberOf", expression |-> expressions[i]] ]

\* SpreadEntries without the default field
SpreadEntriesNoDefault(fieldArgs) ==
    [ i \in 1..Len(fieldArgs) |-> [Type |-> "spread", Field |-> fieldArgs[i]] ]

\* placeSpreadAcross: the entries pushed for its arguments
SpreadEntries(fieldArgs) ==
    LET fs == IF Len(fieldArgs) = 0 THEN << InstanceId >> ELSE fieldArgs
    IN  [ i \in 1..Len(fs) |-> [Type |-> "spread", Field |-> fs[i]] ]

\* placePackedBy: the entry pushed
BinPackEntry(resource) == [Type |-> "binpack", Field |-> resource]

\* placeRandomly: the entry pushed
RandomEntry == [Type |-> "random"]

\* ValidateRet with the capacity test inverted
ValidateRetInverted(base, capacity) ==
    IF capacity THEN Append(base, CapacityError) ELSE base

\* validate: the list returned, given super.validate()'s list
ValidateRet(base, capacity) ==
    IF ~capacity THEN Append(base, CapacityError) ELSE base

\* room left under the model's bound on pushed entries
Room(n) == Len(constraints) + Len(strategies) + n <= MaxEntries

----------------------------------------------------------------------------
(* State machine *)

Init ==
    /\ ctor = "new"
    /\ error = "none"
    /\ props = NoProps
    /\ superCalled = FALSE
    /\ fields = {}
    /\ parameters = {}
    /\ networking = "none"
    /\ constraints = << >>
    /\ strategies = << >>
    /\ token = [n \in TokenNames |-> "uncreated"]
    /\ resolverCalls = [n \in TokenNames |-> 0]
    /\ returned = [n \in TokenNames |-> << >>]
    /\ hasEc2Capacity \in BOOLEAN
    /\ superRet = << >>
    /\ ret = << >>
    /\ call = NoCall

\* new Ec2RunTask(scope, id, props)
Construct(p) ==
    /\ ctor = "new"
    /\ IF PreSuperError(p) # "none"
       THEN /\ ctor' = "thrown"
            /\ error' = PreSuperError(p)
            /\ UNCHANGED << superCalled, fields, parameters, networking,
                            constraints, strategies, token >>
       ELSE /\ superCalled' = TRUE
            /\ fields' = {"cluster", "constraints", "strategies"}
            /\ parameters' = {"LaunchType"} \cup TokenNames
            /\ token' = [n \in TokenNames |-> "deferred"]
            /\ strategies' = << >>
            /\ IF NetworkingError(p) # "none"
               THEN /\ ctor' = "thrown"
                    /\ error' = NetworkingError(p)
                    /\ constraints' = << >>
                    /\ UNCHANGED networking
               ELSE /\ ctor' = "done"
                    /\ error' = "none"
                    /\ networking' = IF p.networkMode = "AwsVpc"
                                     THEN "awsVpc" ELSE "clusterSecurityGroups"
                    /\ constraints' = InitialConstraints(p)
    /\ props' = p
    /\ UNCHANGED << resolverCalls, returned, hasEc2Capacity, superRet, ret, call >>

\* placeOnMemberOf pushing onto both lists
placeOnMemberOfBothLists(expressions) ==
    /\ ctor = "done"
    /\ Room(2 * Len(expressions))
    /\ constraints' = constraints \o MemberOfEntries(expressions)
    /\ strategies' = strategies \o MemberOfEntries(expressions)
    /\ UNCHANGED << ctor, error, props, superCalled, fields, parameters, networking,
                    token, resolverCalls, returned, hasEc2Capacity, superRet, ret >>
    /\ call' = Call("placeOnMemberOf", expressions)

placeOnMemberOf(expressions) ==
    /\ ctor = "done"
    /\ Room(Len(expressions))
    /\ constraints' = constraints \o MemberOfEntries(expressions)
    /\ UNCHANGED << ctor, error, props, superCalled, fields, parameters, networking,
                    strategies, token, resolverCalls, returned, hasEc2Capacity,
                    superRet, ret >>
    /\ call' = Call("placeOnMemberOf", expressions)

placeSpreadAcross(fieldArgs) ==
    /\ ctor = "done"
    /\ Room(Len(SpreadEntries(fieldArgs)))
    /\ strategies' = strategies \o SpreadEntries(fieldArgs)
    /\ UNCHANGED << ctor, error, props, superCalled, fields, parameters, networking,
                    constraints, token, resolverCalls, returned, hasEc2Capacity,
                    superRet, ret >>
    /\ call' = Call("placeSpreadAcross", fieldArgs)

placePackedBy(resource) ==
    /\ ctor = "done"
    /\ Room(1)
    /\ strategies' = Append(strategies, BinPackEntry(resource))
    /\ UNCHANGED << ctor, error, props, superCalled, fields, parameters, networking,
                    constraints, token, resolverCalls, returned, hasEc2Capacity,
                    superRet, ret >>
    /\ call' = Call("placePackedBy", << resource >>)

\* placeRandomly that skips an entry already in the list
placeRandomlyDedup ==
    /\ ctor = "done"
    /\ Room(1)
    /\ strategies' = IF \E i \in 1..Len(strategies) : strategies[i] = RandomEntry
                      THEN strategies ELSE Append(strategies, RandomEntry)
    /\ UNCHANGED << ctor, error, props, superCalled, fields, parameters, networking,
                    constraints, token, resolverCalls, returned, hasEc2Capacity,
                    superRet, ret >>
    /\ call' = Call("placeRandomly", << >>)

placeRandomly ==
    /\ ctor = "done"
    /\ Room(1)
    /\ strategies' = Append(strategies, RandomEntry)
    /\ UNCHANGED << ctor, error, props, superCalled, fields, parameters, networking,
                    constraints, token, resolverCalls, returned, hasEc2Capacity,
                    superRet, ret >>
    /\ call' = Call("placeRandomly", << >>)

\* resolve() of one deferred parameter: the closure runs on the first call,
\* its result is cached and handed out on every call
Resolve(name) ==
    /\ ctor = "done"
    /\ IF token[name] = "deferred"
       THEN /\ token' = [token EXCEPT ![name] = Resolver(name, constraints, strategies)]
            /\ resolverCalls' = [resolverCalls EXCEPT ![name] = @ + 1]
       ELSE UNCHANGED << token, resolverCalls >>
    /\ returned' = [returned EXCEPT ![name] = << Deref(token'[name], constraints, strategies) >>]
    /\ UNCHANGED << ctor, error, props, superCalled, fields, parameters, networking,
                    constraints, strategies, hasEc2Capacity, superRet, ret, call >>

\* validate()
Validate(base) ==
    /\ ctor = "done"
    /\ superRet' = << base >>
    /\ ret' = << ValidateRet(base, hasEc2Capacity) >>
    /\ UNCHANGED << ctor, error, props, superCalled, fields, parameters, networking,
                    constraints, strategies, token, resolverCalls, returned,
                    hasEc2Capacity, call >>

\* the cluster gains EC2 capacity (addXxxCapacity() on the cluster)
AddCapacity ==
    /\ ~hasEc2Capacity
    /\ hasEc2Capacity' = TRUE
    /\ UNCHANGED << ctor, error, props, superCalled, fields, parameters, networking,
                    constraints, strategies, token, resolverCalls, returned,
                    superRet, ret, call >>

Next ==
    \/ \E p \in Ec2RunTaskProps : Construct(p)
    \/ \E expressions \in ArgLists(Expressions, MaxArgs) : placeOnMemberOf(expressions)
    \/ \E fieldArgs \in ArgLists(Fields, MaxArgs) : placeSpreadAcross(fieldArgs)
    \/ \E resource \in BinPackResources : placePackedBy(resource)
    \/ placeRandomly
    \/ \E name \in TokenNames : Resolve(name)
    \/ \E base \in BaseErrors : Validate(base)
    \/ AddCapacity

Spec == Init /\ [][Next]_vars

----------------------------------------------------------------------------
(* Properties *)

IsPrefix(a, b) == Len(a) <= Len(b) /\ SubSeq(b, 1, Len(a)) = a

\* the step in which the resolver closure of a deferred value runs
FirstResolution(name) == token[name] = "deferred" /\ token'[name] # "deferred"

\* a step of a placement method (one that is not a stuttering step)
PlacementStep ==
    call' # call \/ constraints' # constraints \/ strategies' # strategies

\* C1: PlacementStrategy resolves to "absent" when the strategies list is
\* empty and otherwise to the strategies list in append order, whatever the
\* constraints list holds; never to an empty sequence.
C1_StrategyResolvesToOwnList ==
    [][ FirstResolution("PlacementStrategy") =>
            returned'["PlacementStrategy"] =
                << IF Len(strategies) = 0 THEN Absent ELSE Present(strategies) >> ]_vars

\* C2: PlacementConstraints resolves to "absent" when the constraints list
\* is empty and otherwise to the constraints list in append order, and
\* placeOnMemberOf appends one memberOf entry per expression, in order.
C2_ConstraintsResolveToList ==
    [][ /\ FirstResolution("PlacementConstraints") =>
              returned'["PlacementConstraints"] =
                  << IF Len(constraints) = 0 THEN Absent ELSE Present(constraints) >>
        /\ (ctor = "done" /\ PlacementStep /\ call'.op = "placeOnMemberOf") =>
              constraints' = constraints \o
                  [ i \in 1..Len(call'.args) |->
                      [Type |-> "memberOf", expression |-> call'.args[i]] ] ]_vars

\* C2 witness: placeOnMemberOf("a") then placeOnMemberOf("b"), resolved
C2_Witness ==
    /\ call = Call("placeOnMemberOf", << "b" >>)
    /\ returned["PlacementConstraints"] =
          << Present(<< [Type |-> "memberOf", expression |-> "a"],
                        [Type |-> "memberOf", expression |-> "b"] >>) >>

\* C3: a task built without placeOnDistinctInstances on which no placement
\* method has been called resolves both parameters to "absent", never to an
\* empty list.
C3_NoCallsResolveAbsent ==
    (ctor = "done" /\ ~props.placeOnDistinctInstances /\ call = NoCall) =>
        \A name \in TokenNames :
            /\ returned[name] \in { << >>, << Absent >> }
            /\ token[name] \in { "deferred", "undefined" }

\* C3 witness: both parameters resolved on an untouched task
C3_Witness ==
    /\ ctor = "done"
    /\ ~props.placeOnDistinctInstances
    /\ call = NoCall
    /\ \A name \in TokenNames : returned[name] = << Absent >>

\* C4: placeSpreadAcross appends one spread entry per field in argument
\* order, or one spread entry on the instance-id attribute when called with
\* no field; placePackedBy appends one binpack entry on its resource;
\* placeRandomly appends one random entry without a field.
C4_StrategyAppends ==
    [][ (ctor = "done" /\ PlacementStep) =>
          /\ call'.op = "placeSpreadAcross" =>
                strategies' = strategies \o
                    (IF Len(call'.args) = 0
                     THEN << [Type |-> "spread", Field |-> "instanceId"] >>
                     ELSE [ i \in 1..Len(call'.args) |->
                              [Type |-> "spread", Field |-> call'.args[i]] ])
          /\ call'.op = "placePackedBy" =>
                strategies' = strategies \o
                    << [Type |-> "binpack", Field |-> call'.args[1]] >>
          /\ call'.op = "placeRandomly" =>
                strategies' = strategies \o << [Type |-> "random"] >> ]_vars

\* C4 witness: placeSpreadAcross() with no field, after an earlier strategy
C4_Witness ==
    /\ call = Call("placeSpreadAcross", << >>)
    /\ Len(strategies) = 2
    /\ strategies[2] = [Type |-> "spread", Field |-> InstanceId]

\* C5: the constructor never fails for lack of cluster capacity, and
\* validate() returns the base errors followed by exactly one capacity
\* error when the cluster has no EC2 capacity as validate() runs, and the
\* base errors alone when it has.
C5_CapacityCheckedInValidate ==
    [][ /\ (ctor = "new" /\ ctor' = "thrown") =>
              /\ error' # CapacityError
              /\ \/ ~props'.isEc2Compatible
                 \/ ~props'.defaultContainer
                 \/ /\ props'.networkMode # "AwsVpc"
                    /\ props'.vpcPlacement \/ props'.securityGroup
        /\ (ret' # ret \/ superRet' # superRet) =>
              /\ Len(ret') = 1 /\ Len(superRet') = 1
              /\ ret'[1] = IF hasEc2Capacity
                           THEN superRet'[1]
                           ELSE superRet'[1] \o << CapacityError >> ]_vars

\* C5 witness: built on a cluster without capacity, validated there
C5_Witness ==
    /\ ctor = "done"
    /\ ~hasEc2Capacity
    /\ superRet = << << "base" >> >>
    /\ ret = << << "base", CapacityError >> >>

C7_ResolvesFinalState ==
    [][ \A name \in TokenNames :
          FirstResolution(name) =>
              LET list == IF name = "PlacementConstraints"
                          THEN constraints ELSE strategies
                  got  == returned'[name][1]
              IN  \A i \in 1..Len(list) :
                      /\ got.present
                      /\ Len(got.value) >= i
                      /\ got.value[i] = list[i] ]_vars

\* C8: both lists only grow at the end, and a call that repeats an earlier
\* one still adds its entry.
C8_AppendOnlyNoDedup ==
    /\ [][ IsPrefix(constraints, constraints') /\ IsPrefix(strategies, strategies') ]_vars
    /\ [](ctor = "done" /\ Room(1) =>
            /\ ENABLED (placeRandomly /\ Len(strategies') = Len(strategies) + 1)
            /\ ENABLED (placeOnMemberOf(<< "a" >>)
                         /\ Len(constraints') = Len(constraints) + 1))

\* C8 witness: placeRandomly() twice
C8_Witness == strategies = << RandomEntry, RandomEntry >>

\* C9: the constructor throws at once for a task definition that is not
\* EC2-compatible, for one without a default container, and for networking
\* props outside AwsVpc mode; after the first two nothing of the task has
\* been initialised; validate() reports none of the three.
C9_ConstructorFailsFast ==
    ctor # "new" =>
        LET notCompatible == ~props.isEc2Compatible
            noContainer   == ~props.defaultContainer
            badNetworking == /\ props.networkMode # "AwsVpc"
                             /\ props.vpcPlacement \/ props.securityGroup
        IN  /\ ctor = "thrown" <=> (notCompatible \/ noContainer \/ badNetworking)
            /\ notCompatible => error = NotCompatibleError
            /\ (~notCompatible /\ noContainer) => error = NoContainerError
            /\ (~notCompatible /\ ~noContainer /\ badNetworking) =>
                   error = NetworkingPropsError
            /\ (notCompatible \/ noContainer) =>
                   /\ ~superCalled
                   /\ fields = {}
                   /\ parameters = {}
                   /\ \A name \in TokenNames : token[name] = "uncreated"
            /\ ctor = "thrown" => ret = << >>
            /\ \A r \in 1..Len(ret) : \A i \in 1..Len(ret[r]) :
                   ret[r][i] \notin
                       { NotCompatibleError, NoContainerError, NetworkingPropsError }

\* C9 witness: the default-container check threw before super()
C9_Witness ==
    /\ ctor = "thrown"
    /\ error = NoContainerError
    /\ ~superCalled

\* C10: placeOnMemberOf leaves the strategies list alone, the three
\* strategy methods leave the constraints list alone, and validate() leaves
\* both alone.
C10_Frame ==
    [][ ctor = "done" =>
          /\ (PlacementStep /\ call'.op = "placeOnMemberOf") =>
                strategies' = strategies
          /\ (PlacementStep /\ call'.op \in
                  { "placeSpreadAcross", "placePackedBy", "placeRandomly" }) =>
                constraints' = constraints
          /\ (ret' # ret \/ superRet' # superRet) =>
                constraints' = constraints /\ strategies' = strategies ]_vars

\* C10 witness: both lists filled, then validate()
C10_Witness ==
    /\ Len(constraints) >= 1
    /\ Len(strategies) >= 1
    /\ ret # << >>

====
